---- MODULE Spec2Model ----
(***************************************************************************)
(* The transcript reconciler (ChatPanel.tsx) and the state synchronizer    *)
(* (RoomConnection.tsx) of the voice-agent demo client, as one state       *)
(* machine.  One action per handler / callback; React state cells are the  *)
(* variables; a component's state cells return to their useState defaults  *)
(* when the component unmounts.                                            *)
(***************************************************************************)
EXTENDS Integers, Sequences, FiniteSets, TLC

VARIABLES
    connection,      \* RoomConnection: useState<ConnectionState | null>
    sessionState,    \* RoomConnection: useState<SessionState | null>
    isConnecting,    \* RoomConnection: useState(false)
    isConnected,     \* RoomConnection: useState(false)
    error,           \* RoomConnection: useState<string | null>
    fetchPending,    \* connect(): the awaited token request is in flight
    roomState,       \* the transport's connection, as LiveKitRoom reports it
    participants,    \* useParticipants(): the remote participants, in join order
    messages,        \* ChatPanel: useState<Message[]>
    textInput,       \* ChatPanel: useState("")
    sendPending,     \* handleSendText: awaited sendChat calls in flight
    now,             \* Date.now()
    consoleError,    \* the last run of handleAttributesChanged called console.error
    lastDecoded,     \* history: the last two raw strings JSON.parse accepted in this session
    listeners,       \* handlers registered on the room for ParticipantAttributesChanged
    timers,          \* intervals set by ChatPanel's sampler effect and not cleared
    agentTrack,      \* ChatPanel: agentTracks[0], NoTrack for undefined
    isAgentSpeaking, \* ChatPanel: useState(false)
    trackMuted,      \* agentTrack.publication.track.isMuted, FALSE without a track
    micEnabled,      \* localParticipant.isMicrophoneEnabled
    micRequest       \* the setMicrophoneEnabled call the transport has not applied yet

vars == <<connection, sessionState, isConnecting, isConnected, error,
          fetchPending, roomState, participants,
          messages, textInput, sendPending, now, consoleError,
          lastDecoded, listeners, timers, agentTrack,
          isAgentSpeaking, trackMuted, micEnabled, micRequest>>

roomVars == <<connection, isConnecting, isConnected, error, fetchPending, roomState>>
syncVars == <<sessionState, participants, consoleError, lastDecoded>>
chatVars == <<messages, textInput, sendPending>>
subsVars == <<listeners, timers, agentTrack>>
ctrlVars == <<isAgentSpeaking, trackMuted, micEnabled, micRequest>>

----------------------------------------------------------------------------
(* Bounds of the model *)

MaxBatch   == 2      \* longest segment batch delivered in one callback
MaxTurns   == 2      \* longest Turn log explored
MaxClock   == 1      \* largest Date.now() value explored
MaxPending == 1      \* most sendChat calls in flight at once
MaxParticipants == 2 \* most remote participants in the room
MaxTracks  == 2      \* distinct microphone track references of the agent

----------------------------------------------------------------------------
(* Values *)

Null      == [t |-> "null", f |-> {}]     \* JS null
Obj(f)    == [t |-> "object", f |-> f]    \* a JS object: its set of <<key, value>>
Undefined == "undefined"                  \* JS undefined, for the attribute string
Str(m)    == [t |-> "string", f |-> {m}]  \* a JS string held in a nullable cell

\* Text is a sequence of characters; " " stands for any whitespace character.
Empty   == << >>
Blank   == << " " >>
Hi      == << "H", "i" >>
HiThere == << "H", "i", " ", "t", "h", "e", "r", "e" >>
Padded  == << " ", "H", "i" >>
SegTexts   == {Empty, Blank, Hi, HiThere}     \* texts the recognizer sends
TypedTexts == {Empty, Blank, Padded}          \* texts the user types

Roles   == {"user", "assistant"}

\* Segment ids of the transcription collaborator and ids of typed Turns
SegIds     == { <<"SG", 1>>, <<"SG", 2>> }
Segments   == [id : SegIds, text : SegTexts, final : BOOLEAN]
Batches    == UNION { [1..n -> Segments] : n \in 0..MaxBatch }

----------------------------------------------------------------------------
(* String.prototype.trim and string truthiness *)

IsWhitespace(c) == c = " "

RECURSIVE TrimStart(_)
TrimStart(s) ==
    IF s = << >> THEN s
    ELSE IF IsWhitespace(Head(s)) THEN TrimStart(Tail(s)) ELSE s

RECURSIVE TrimEnd(_)
TrimEnd(s) ==
    IF s = << >> THEN s
    ELSE IF IsWhitespace(s[Len(s)]) THEN TrimEnd(SubSeq(s, 1, Len(s) - 1)) ELSE s

trim(s) == TrimEnd(TrimStart(s))

Truthy(s) == s # << >>

----------------------------------------------------------------------------
(* ChatPanel: processSegments *)

\* Array.prototype.findIndex(m => m.id === id): 0-based, -1 when absent
findIndex(msgs, id) ==
    IF \E i \in 1..Len(msgs) : msgs[i].id = id
    THEN (CHOOSE i \in 1..Len(msgs) :
              /\ msgs[i].id = id
              /\ \A j \in 1..(i - 1) : msgs[j].id # id) - 1
    ELSE -1

\* Variants of the forEach body, each with one plausible slip
\* no lookup of an existing Turn: every segment with content is pushed
applySegment_alwaysPush(newMessages, segment, role, t) ==
    IF Truthy(trim(segment.text))
    THEN Append(newMessages,
                [id |-> segment.id, role |-> role, content |-> segment.text,
                 timestamp |-> t, isFinal |-> segment.final])
    ELSE newMessages

\* an updated Turn is taken out and pushed again at the end
applySegment_moveToEnd(newMessages, segment, role, t) ==
    LET existingIndex == findIndex(newMessages, segment.id) IN
    IF existingIndex >= 0
    THEN Append(SubSeq(newMessages, 1, existingIndex)
                    \o SubSeq(newMessages, existingIndex + 2, Len(newMessages)),
                [newMessages[existingIndex + 1] EXCEPT
                     !.content = segment.text, !.isFinal = segment.final])
    ELSE IF Truthy(trim(segment.text))
    THEN Append(newMessages,
                [id |-> segment.id, role |-> role, content |-> segment.text,
                 timestamp |-> t, isFinal |-> segment.final])
    ELSE newMessages

\* segment.text tested without trim()
applySegment_noTrim(newMessages, segment, role, t) ==
    LET existingIndex == findIndex(newMessages, segment.id) IN
    IF existingIndex >= 0
    THEN [newMessages EXCEPT ![existingIndex + 1] =
             [@ EXCEPT !.content = segment.text, !.isFinal = segment.final]]
    ELSE IF Truthy(segment.text)
    THEN Append(newMessages,
                [id |-> segment.id, role |-> role, content |-> segment.text,
                 timestamp |-> t, isFinal |-> segment.final])
    ELSE newMessages

\* the update writes content but leaves isFinal as it was
applySegment_contentOnly(newMessages, segment, role, t) ==
    LET existingIndex == findIndex(newMessages, segment.id) IN
    IF existingIndex >= 0
    THEN [newMessages EXCEPT ![existingIndex + 1] =
             [@ EXCEPT !.content = segment.text]]
    ELSE IF Truthy(trim(segment.text))
    THEN Append(newMessages,
                [id |-> segment.id, role |-> role, content |-> segment.text,
                 timestamp |-> t, isFinal |-> segment.final])
    ELSE newMessages

\* the update builds the Turn anew, with the channel's role and the time
applySegment_rebuild(newMessages, segment, role, t) ==
    LET existingIndex == findIndex(newMessages, segment.id) IN
    IF existingIndex >= 0
    THEN [newMessages EXCEPT ![existingIndex + 1] =
             [id |-> segment.id, role |-> role, content |-> segment.text,
              timestamp |-> t, isFinal |-> segment.final]]
    ELSE IF Truthy(trim(segment.text))
    THEN Append(newMessages,
                [id |-> segment.id, role |-> role, content |-> segment.text,
                 timestamp |-> t, isFinal |-> segment.final])
    ELSE newMessages

\* the body of segments.forEach
applySegment(newMessages, segment, role, t) ==
    LET existingIndex == findIndex(newMessages, segment.id) IN
    IF existingIndex >= 0
    THEN [newMessages EXCEPT ![existingIndex + 1] =
             [@ EXCEPT !.content = segment.text, !.isFinal = segment.final]]
    ELSE IF Truthy(trim(segment.text))
    THEN Append(newMessages,
                [id |-> segment.id, role |-> role, content |-> segment.text,
                 timestamp |-> t, isFinal |-> segment.final])
    ELSE newMessages

RECURSIVE forEach(_, _, _, _)
forEach(newMessages, segments, role, t) ==
    IF segments = << >> THEN newMessages
    ELSE forEach(applySegment(newMessages, Head(segments), role, t),
                 Tail(segments), role, t)

\* Variant: an empty batch empties the log
processSegments_emptyClears(prev, segments, role, t) ==
    IF Len(segments) = 0 THEN << >>
    ELSE forEach(prev, segments, role, t)

\* processSegments(segments, role) applied to the log prev at time t
processSegments(prev, segments, role, t) ==
    IF Len(segments) = 0 THEN prev
    ELSE forEach(prev, segments, role, t)

\* the argument a caller passes for segments: an array, or nothing
Arr(a)     == [t |-> "array", a |-> a]
NoSegments == [t |-> "undefined", a |-> << >>]

\* processSegments(segments, role) from its first line: !segments || ...
processSegmentsCall(prev, arg, role, t) ==
    IF arg.t = "undefined" THEN prev
    ELSE processSegments(prev, arg.a, role, t)

----------------------------------------------------------------------------
(* RoomContent: the agent's state attribute and JSON.parse *)

RawGarbage == "{not json"
RawNull    == "null"
RawA       == "{\"consented\":true}"
RawASpaced == "{ \"consented\" : true }"
RawB       == "{\"consented\":false,\"reminders\":[]}"
RawC       == "{\"reminders\":[]}"
Raws       == {"", RawGarbage, RawNull, RawA, RawASpaced, RawB, RawC}
RawOrUndefined == Raws \cup {Undefined}

\* JSON.parse throws a SyntaxError on these
Throws(raw) == raw \in {"", RawGarbage}

\* JSON.parse on the strings it accepts
JSONParse(raw) ==
    CASE raw = RawNull              -> Null
      [] raw \in {RawA, RawASpaced} -> Obj({<<"consented", "true">>})
      [] raw = RawB                 -> Obj({<<"consented", "false">>, <<"reminders", "[]">>})
      [] raw = RawC                 -> Obj({<<"reminders", "[]">>})

\* if (stateStr): a string is truthy unless undefined or empty
StrTruthy(stateStr) == stateStr # Undefined /\ stateStr # ""

\* String.prototype.includes on character sequences
includes(s, sub) ==
    \E i \in 1..(Len(s) - Len(sub) + 1) : SubSeq(s, i, i + Len(sub) - 1) = sub

AgentMarker == << "a", "g", "e", "n", "t" >>

\* The remote participants that can be in the room: an agent the server
\* flags, a participant whose identity merely contains "agent", a caller
ParticipantKinds ==
    { [identity |-> << "b", "o", "t" >>, isAgent |-> TRUE],
      [identity |-> << "r", "e" >> \o AgentMarker, isAgent |-> FALSE],
      [identity |-> << "s", "i", "p" >>, isAgent |-> FALSE] }

\* (p) => p.isAgent || p.identity.includes("agent")
isAgentParticipant(p) == p.isAgent \/ includes(p.identity, AgentMarker)

\* participants.find(...): the 1-based index of the first match, 0 for undefined
findAgent(ps) ==
    IF \E i \in 1..Len(ps) : isAgentParticipant(ps[i])
    THEN CHOOSE i \in 1..Len(ps) :
             /\ isAgentParticipant(ps[i])
             /\ \A j \in 1..(i - 1) : ~isAgentParticipant(ps[j])
    ELSE 0

\* agentParticipant.attributes?.state
agentState(ps) == IF findAgent(ps) = 0 THEN Undefined ELSE ps[findAgent(ps)].state

\* Variants of the handler, each with one plausible slip
\* the catch branch publishes null
handleAttributesChanged_blankOnError(cur, ps) ==
    IF findAgent(ps) # 0
    THEN LET stateStr == ps[findAgent(ps)].state IN
         IF StrTruthy(stateStr)
         THEN IF Throws(stateStr) THEN Null ELSE JSONParse(stateStr)
         ELSE cur
    ELSE cur

\* the decoded fields are merged over the previous snapshot: {...prev, ...state}
handleAttributesChanged_merge(cur, ps) ==
    IF findAgent(ps) # 0
    THEN LET stateStr == ps[findAgent(ps)].state IN
         IF StrTruthy(stateStr)
         THEN IF Throws(stateStr)
              THEN cur
              ELSE LET new == JSONParse(stateStr) IN
                   IF new = Null THEN cur
                   ELSE Obj(new.f \cup {kv \in cur.f :
                                           \A nkv \in new.f : nkv[1] # kv[1]})
         ELSE cur
    ELSE cur

\* an absent or empty attribute clears the snapshot
handleAttributesChanged_clearOnEmpty(cur, ps) ==
    IF findAgent(ps) # 0
    THEN LET stateStr == ps[findAgent(ps)].state IN
         IF StrTruthy(stateStr)
         THEN IF Throws(stateStr) THEN cur ELSE JSONParse(stateStr)
         ELSE Null
    ELSE cur

\* handleAttributesChanged: the value of sessionState after the handler ran
\* over the participants ps
handleAttributesChanged(cur, ps) ==
    IF findAgent(ps) # 0                              \* if (agentParticipant)
    THEN LET stateStr == ps[findAgent(ps)].state IN
         IF StrTruthy(stateStr)                       \* if (stateStr)
         THEN IF Throws(stateStr)
              THEN cur                                \* catch: console.error only
              ELSE JSONParse(stateStr)                \* onStateChange(state)
         ELSE cur
    ELSE cur

\* the catch branch: console.error("Failed to parse state:", e)
handlerLogsError(ps) ==
    /\ findAgent(ps) # 0
    /\ StrTruthy(ps[findAgent(ps)].state)
    /\ Throws(ps[findAgent(ps)].state)

\* history: the handler's run over ps adds the raw string it read if
\* JSON.parse accepted it; only the last two are kept
handlerDecoded(last, ps) ==
    IF findAgent(ps) # 0 /\ StrTruthy(agentState(ps)) /\ ~Throws(agentState(ps))
    THEN IF Len(last) < 2 THEN Append(last, agentState(ps))
         ELSE << last[2], agentState(ps) >>
    ELSE last

\* state.f has a field named k
HasField(state, k) == \E kv \in state.f : kv[1] = k

\* the list-valued fields of the samples: a dashboard reads their length
ListFields == {"reminders"}

\* PatientDashboard({ state }): what it renders. It returns null for a null
\* state; otherwise it passes state.reminders on, whose .length is read
PatientDashboard(state) ==
    IF state = Null THEN "nothing"
    ELSE IF \E k \in ListFields : ~HasField(state, k) THEN "TypeError"
    ELSE "dashboard"

\* CalendarDashboard({ state }): the placeholder for a null state; otherwise
\* each list is read as state.list || []
CalendarDashboard(state) ==
    IF state = Null THEN "placeholder" ELSE "dashboard"

----------------------------------------------------------------------------
(* Subscriptions: the room's listener registry and the window's intervals *)

NoTrack == 0                   \* agentTracks[0] of an empty array
Tracks  == 1..MaxTracks

\* Variant: the effect's cleanup does not remove the handler
room_off_noop(n) == n

\* room.on(RoomEvent.ParticipantAttributesChanged, handleAttributesChanged)
room_on(n) == n + 1

\* room.off(...): removes the handler if it is registered
room_off(n) == IF n > 0 THEN n - 1 ELSE 0

\* the effect re-runs: the previous run's cleanup, then the new subscription
resubscribe(n) == room_on(room_off(n))

setInterval(n) == n + 1

clearInterval(n) == IF n > 0 THEN n - 1 ELSE 0

\* Variant: the sampler effect returns no cleanup
samplerEffect_noCleanup(old, new, n) ==
    IF old = new THEN n
    ELSE IF new # NoTrack THEN setInterval(n) ELSE n

\* useEffect(..., [agentTrack]) when agentTrack goes from old to new with n
\* intervals set: the previous run's cleanup (it returned one only if it
\* had a track), then an interval if there is a track now
samplerEffect(old, new, n) ==
    IF old = new THEN n
    ELSE LET cleaned == IF old # NoTrack THEN clearInterval(n) ELSE n
         IN  IF new # NoTrack THEN setInterval(cleaned) ELSE cleaned

----------------------------------------------------------------------------
Init ==
    /\ connection = Null
    /\ sessionState = Null
    /\ isConnecting = FALSE
    /\ isConnected = FALSE
    /\ error = Null
    /\ fetchPending = FALSE
    /\ roomState = "none"
    /\ participants = << >>
    /\ messages = << >>
    /\ textInput = Empty
    /\ sendPending = 0
    /\ now = 0
    /\ consoleError = FALSE
    /\ lastDecoded = << >>
    /\ listeners = 0
    /\ timers = 0
    /\ agentTrack = NoTrack
    /\ isAgentSpeaking = FALSE
    /\ trackMuted = FALSE
    /\ micEnabled = FALSE
    /\ micRequest = "none"

----------------------------------------------------------------------------
(* RoomConnection: the session's life cycle *)

Conn == [t |-> "connection", f |-> {<<"token", "tok">>, <<"url", "wss">>}]

Mounted == connection # Null       \* LiveKitRoom, RoomContent, ChatPanel are rendered

\* {error && <div className="error-message">{error}</div>}: the element is
\* part of the landing page only, the branch if (!connection)
errorShown == connection = Null /\ error # Null

\* the "Start Session" button: onClick={connect} disabled={isConnecting}
Connect ==
    /\ connection = Null
    /\ ~isConnecting
    /\ isConnecting' = TRUE
    /\ error' = Null
    /\ fetchPending' = TRUE
    /\ UNCHANGED <<connection, isConnected, roomState, now>>
    /\ UNCHANGED <<syncVars, chatVars, subsVars, ctrlVars>>

\* connect() resumes: res.ok, setConnection(...); LiveKitRoom mounts with
\* connect={true}; RoomContent's effect runs its handler with no participant
TokenOk ==
    /\ fetchPending
    /\ fetchPending' = FALSE
    /\ connection' = Conn
    /\ roomState' = "connecting"
    /\ sessionState' = handleAttributesChanged(sessionState, participants)
    /\ consoleError' = handlerLogsError(participants)
    /\ lastDecoded' = handlerDecoded(lastDecoded, participants)
    /\ listeners' = room_on(listeners)
    /\ UNCHANGED <<isConnecting, isConnected, error, now>>
    /\ UNCHANGED <<participants, chatVars, timers, agentTrack, ctrlVars>>

\* Variant: the catch branch sets the error and leaves isConnecting set
TokenFail_staysConnecting ==
    /\ fetchPending
    /\ fetchPending' = FALSE
    /\ \E msg \in {"Failed to get token", "Connection failed"} : error' = Str(msg)
    /\ UNCHANGED <<connection, isConnecting, isConnected, roomState, now>>
    /\ UNCHANGED <<syncVars, chatVars, subsVars, ctrlVars>>

\* connect() resumes: !res.ok or fetch threw; the catch branch
TokenFail ==
    /\ fetchPending
    /\ fetchPending' = FALSE
    /\ \E msg \in {"Failed to get token", "Connection failed"} : error' = Str(msg)
    /\ isConnecting' = FALSE
    /\ UNCHANGED <<connection, isConnected, roomState, now>>
    /\ UNCHANGED <<syncVars, chatVars, subsVars, ctrlVars>>

\* LiveKitRoom onConnected
RoomConnected ==
    /\ Mounted
    /\ roomState = "connecting"
    /\ roomState' = "connected"
    /\ isConnecting' = FALSE
    /\ isConnected' = TRUE
    /\ micEnabled' = TRUE                           \* audio={true}
    /\ UNCHANGED <<connection, error, fetchPending, now>>
    /\ UNCHANGED <<syncVars, chatVars, subsVars>>
    /\ UNCHANGED <<isAgentSpeaking, trackMuted, micRequest>>

\* LiveKitRoom onError: the transport could not connect
RoomError ==
    /\ Mounted
    /\ roomState = "connecting"
    /\ roomState' = "failed"
    /\ error' = Str("transport error")
    /\ isConnecting' = FALSE
    /\ UNCHANGED <<connection, isConnected, fetchPending, now>>
    /\ UNCHANGED <<syncVars, chatVars, subsVars, ctrlVars>>

\* LiveKitRoom onDisconnected: the transport dropped; the room's remote
\* participants are gone, so RoomContent's effect re-runs its handler
RoomDisconnected ==
    /\ Mounted
    /\ roomState = "connected"
    /\ roomState' = "disconnected"
    /\ isConnected' = FALSE
    /\ participants' = << >>
    /\ sessionState' = handleAttributesChanged(sessionState, participants')
    /\ consoleError' = handlerLogsError(participants')
    /\ lastDecoded' = handlerDecoded(lastDecoded, participants')
    /\ listeners' = resubscribe(listeners)
    /\ agentTrack' = NoTrack
    /\ timers' = samplerEffect(agentTrack, NoTrack, timers)
    /\ trackMuted' = FALSE
    /\ UNCHANGED <<connection, isConnecting, error, fetchPending, now>>
    /\ UNCHANGED <<chatVars, isAgentSpeaking, micEnabled, micRequest>>

\* Variant: disconnect() without setSessionState(null)
Disconnect_keepsState ==
    /\ connection # Null
    /\ connection' = Null
    /\ isConnected' = FALSE
    /\ roomState' = "none"
    /\ participants' = << >>
    /\ consoleError' = FALSE
    /\ lastDecoded' = << >>
    /\ messages' = << >>
    /\ textInput' = Empty
    /\ sendPending' = 0
    /\ listeners' = room_off(listeners)
    /\ agentTrack' = NoTrack
    /\ timers' = samplerEffect(agentTrack, NoTrack, timers)
    /\ isAgentSpeaking' = FALSE
    /\ trackMuted' = FALSE
    /\ micEnabled' = FALSE
    /\ micRequest' = "none"
    /\ UNCHANGED <<sessionState, isConnecting, error, fetchPending, now>>

\* the "End Session" button: disconnect(); the room subtree unmounts, so
\* ChatPanel's state cells are discarded and the room is left
Disconnect ==
    /\ Mounted
    /\ connection' = Null
    /\ sessionState' = Null
    /\ isConnected' = FALSE
    /\ roomState' = "none"
    /\ participants' = << >>
    /\ consoleError' = FALSE
    /\ lastDecoded' = << >>
    /\ messages' = << >>
    /\ textInput' = Empty
    /\ sendPending' = 0
    /\ listeners' = room_off(listeners)
    /\ agentTrack' = NoTrack
    /\ timers' = samplerEffect(agentTrack, NoTrack, timers)
    /\ isAgentSpeaking' = FALSE
    /\ trackMuted' = FALSE
    /\ micEnabled' = FALSE
    /\ micRequest' = "none"
    /\ UNCHANGED <<isConnecting, error, fetchPending, now>>

----------------------------------------------------------------------------
(* RoomContent: the attribute listener *)

Listening == Mounted /\ roomState = "connected"

Remove(ps, i) == SubSeq(ps, 1, i - 1) \o SubSeq(ps, i + 1, Len(ps))

\* Variant: the effect subscribes without the eager handleAttributesChanged()
ParticipantJoined_noEager(kind, raw) ==
    /\ Listening
    /\ Len(participants) < MaxParticipants
    /\ \A i \in 1..Len(participants) : participants[i].identity # kind.identity
    /\ participants' = Append(participants,
                              [identity |-> kind.identity, isAgent |-> kind.isAgent,
                               state |-> raw])
    /\ UNCHANGED <<sessionState, consoleError, lastDecoded>>
    /\ listeners' = resubscribe(listeners)
    /\ UNCHANGED <<roomVars, chatVars, now, timers, agentTrack, ctrlVars>>

\* a participant joins (its attributes may already be set): participants
\* changes, the effect re-subscribes and calls handleAttributesChanged() eagerly
ParticipantJoined(kind, raw) ==
    /\ Listening
    /\ Len(participants) < MaxParticipants
    /\ \A i \in 1..Len(participants) : participants[i].identity # kind.identity
    /\ participants' = Append(participants,
                              [identity |-> kind.identity, isAgent |-> kind.isAgent,
                               state |-> raw])
    /\ sessionState' = handleAttributesChanged(sessionState, participants')
    /\ consoleError' = handlerLogsError(participants')
    /\ lastDecoded' = handlerDecoded(lastDecoded, participants')
    /\ listeners' = resubscribe(listeners)
    /\ UNCHANGED <<roomVars, chatVars, now, timers, agentTrack, ctrlVars>>

\* Variant: publishing a snapshot remounts the panel, whose log starts anew
AttributesChanged_resetsLog(i, raw) ==
    /\ Listening
    /\ i \in 1..Len(participants)
    /\ participants' = [participants EXCEPT ![i].state = raw]
    /\ sessionState' = handleAttributesChanged(sessionState, participants')
    /\ consoleError' = handlerLogsError(participants')
    /\ lastDecoded' = handlerDecoded(lastDecoded, participants')
    /\ messages' = IF sessionState' # sessionState THEN << >> ELSE messages
    /\ UNCHANGED <<roomVars, textInput, sendPending, now, subsVars, ctrlVars>>

\* RoomEvent.ParticipantAttributesChanged: participant i's state attribute
\* is now raw; the listener runs
AttributesChanged(i, raw) ==
    /\ Listening
    /\ i \in 1..Len(participants)
    /\ participants' = [participants EXCEPT ![i].state = raw]
    /\ sessionState' = handleAttributesChanged(sessionState, participants')
    /\ consoleError' = handlerLogsError(participants')
    /\ lastDecoded' = handlerDecoded(lastDecoded, participants')
    /\ UNCHANGED <<roomVars, chatVars, now, subsVars, ctrlVars>>

\* a participant leaves: participants changes, the effect re-runs the handler
ParticipantLeft(i) ==
    /\ Listening
    /\ i \in 1..Len(participants)
    /\ participants' = Remove(participants, i)
    /\ sessionState' = handleAttributesChanged(sessionState, participants')
    /\ consoleError' = handlerLogsError(participants')
    /\ lastDecoded' = handlerDecoded(lastDecoded, participants')
    /\ listeners' = resubscribe(listeners)
    /\ agentTrack' = IF i = findAgent(participants) THEN NoTrack ELSE agentTrack
    /\ timers' = samplerEffect(agentTrack, agentTrack', timers)
    /\ trackMuted' = IF agentTrack' = NoTrack THEN FALSE ELSE trackMuted
    /\ UNCHANGED <<roomVars, chatVars, now, isAgentSpeaking, micEnabled, micRequest>>

----------------------------------------------------------------------------
(* ChatPanel: the agent's microphone track *)

\* useTracks(...) yields another agentTracks[0]: the agent's microphone
\* track is subscribed, replaced by another reference, or unsubscribed;
\* the sampler effect re-runs
AgentTrackChanged(track) ==
    /\ Listening
    /\ track # agentTrack
    /\ track # NoTrack => findAgent(participants) # 0
    /\ agentTrack' = track
    /\ timers' = samplerEffect(agentTrack, track, timers)
    /\ \E muted \in BOOLEAN : trackMuted' = IF track = NoTrack THEN FALSE ELSE muted
    /\ UNCHANGED <<roomVars, syncVars, chatVars, now, listeners>>
    /\ UNCHANGED <<isAgentSpeaking, micEnabled, micRequest>>

\* Variant: the indicator follows the mute flag itself
checkSpeaking_inverted(isMuted) == isMuted

\* checkSpeaking: the value given to setIsAgentSpeaking, track.isMuted === false
checkSpeaking(isMuted) == isMuted = FALSE

\* the interval fires: checkSpeaking() samples the track's mute flag
SampleTick ==
    /\ Mounted
    /\ timers > 0
    /\ isAgentSpeaking' = checkSpeaking(trackMuted)
    /\ UNCHANGED <<roomVars, syncVars, chatVars, subsVars, now>>
    /\ UNCHANGED <<trackMuted, micEnabled, micRequest>>

\* the agent mutes or unmutes its microphone track
TrackMuteChanged ==
    /\ Listening
    /\ agentTrack # NoTrack
    /\ trackMuted' = ~trackMuted
    /\ UNCHANGED <<roomVars, syncVars, chatVars, subsVars, now>>
    /\ UNCHANGED <<isAgentSpeaking, micEnabled, micRequest>>

----------------------------------------------------------------------------
(* ChatPanel: the handlers *)

\* `user-${Date.now()}`
messageId(t) == <<"user", t>>

\* useEffect(() => processSegments(segments, role), [segments]): a batch
\* of the role's transcription stream is observed
ApplySegments(role, segments) ==
    /\ Mounted
    /\ roomState = "connected"
    /\ Len(processSegments(messages, segments, role, now)) <= MaxTurns
    /\ messages' = processSegments(messages, segments, role, now)
    /\ UNCHANGED <<roomVars, syncVars, subsVars, ctrlVars, textInput, sendPending, now>>

\* onChange={(e) => setTextInput(e.target.value)}
SetTextInput(text) ==
    /\ Mounted
    /\ text # textInput
    /\ textInput' = text
    /\ UNCHANGED <<roomVars, syncVars, subsVars, ctrlVars, messages, sendPending, now>>

\* Variant: the guard tests !textInput, without trim()
HandleSendText_noTrim(sendChat) ==
    /\ connection # Null
    /\ IF ~Truthy(textInput) \/ ~sendChat
       THEN UNCHANGED <<messages, sendPending>>
       ELSE /\ Len(messages) < MaxTurns
            /\ sendPending < MaxPending
            /\ messages' = Append(messages,
                                  [id |-> <<"user", now>>, role |-> "user",
                                   content |-> textInput, timestamp |-> now,
                                   isFinal |-> TRUE])
            /\ sendPending' = sendPending + 1
    /\ UNCHANGED <<roomVars, syncVars, subsVars, ctrlVars, textInput, now>>

\* Variant: the Turn carries the trimmed text
HandleSendText_trimmed(sendChat) ==
    /\ connection # Null
    /\ IF ~Truthy(trim(textInput)) \/ ~sendChat
       THEN UNCHANGED <<messages, sendPending>>
       ELSE /\ Len(messages) < MaxTurns
            /\ sendPending < MaxPending
            /\ messages' = Append(messages,
                                  [id |-> <<"user", now>>, role |-> "user",
                                   content |-> trim(textInput), timestamp |-> now,
                                   isFinal |-> TRUE])
            /\ sendPending' = sendPending + 1
    /\ UNCHANGED <<roomVars, syncVars, subsVars, ctrlVars, textInput, now>>

\* handleSendText up to its await: the guard, then the optimistic append;
\* sendChat tells whether useChat() gave a send function
HandleSendText(sendChat) ==
    /\ Mounted
    /\ IF ~Truthy(trim(textInput)) \/ ~sendChat
       THEN UNCHANGED <<messages, sendPending>>
       ELSE /\ Len(messages) < MaxTurns
            /\ sendPending < MaxPending
            /\ messages' = Append(messages,
                                  [id |-> messageId(now), role |-> "user",
                                   content |-> textInput, timestamp |-> now,
                                   isFinal |-> TRUE])
            /\ sendPending' = sendPending + 1
    /\ UNCHANGED <<roomVars, syncVars, subsVars, ctrlVars, textInput, now>>

\* await sendChat(textInput) resolved: setTextInput("")
SendChatResolved ==
    /\ Mounted
    /\ sendPending > 0
    /\ sendPending' = sendPending - 1
    /\ textInput' = Empty
    /\ UNCHANGED <<roomVars, syncVars, subsVars, ctrlVars, messages, now>>

\* await sendChat(textInput) rejected: the handler ends with the exception
SendChatRejected ==
    /\ Mounted
    /\ sendPending > 0
    /\ sendPending' = sendPending - 1
    /\ UNCHANGED <<roomVars, syncVars, subsVars, ctrlVars, messages, textInput, now>>

\* the wall clock advances
Tick ==
    /\ now < MaxClock
    /\ now' = now + 1
    /\ UNCHANGED <<roomVars, syncVars, chatVars, subsVars, ctrlVars>>

\* Variant: the call asks for the value the microphone already has
toggleMicrophone_sameValue(localParticipant, enabled, pending) ==
    IF ~localParticipant THEN pending
    ELSE IF enabled THEN "on" ELSE "off"

\* toggleMicrophone: the request pending at the transport after the call,
\* localParticipant telling whether useLocalParticipant() gave a handle
toggleMicrophone(localParticipant, enabled, pending) ==
    IF ~localParticipant THEN pending                 \* if (!localParticipant) return
    ELSE IF enabled THEN "off" ELSE "on"              \* !isMicrophoneEnabled

\* the microphone button: onClick={toggleMicrophone}, up to its await
ToggleMicrophone(localParticipant) ==
    /\ Mounted
    /\ micRequest' = toggleMicrophone(localParticipant, micEnabled, micRequest)
    /\ UNCHANGED <<roomVars, syncVars, chatVars, subsVars, now>>
    /\ UNCHANGED <<isAgentSpeaking, trackMuted, micEnabled>>

\* the transport applies the pending setMicrophoneEnabled call
MicrophoneSet ==
    /\ Mounted
    /\ micRequest # "none"
    /\ micEnabled' = (micRequest = "on")
    /\ micRequest' = "none"
    /\ UNCHANGED <<roomVars, syncVars, chatVars, subsVars, now>>
    /\ UNCHANGED <<isAgentSpeaking, trackMuted>>

\* what ChatPanel renders from its state cells: the Turns and the input
chatView == <<messages, textInput>>

----------------------------------------------------------------------------
NextRoom ==
    \/ Connect
    \/ TokenOk
    \/ TokenFail
    \/ RoomConnected
    \/ RoomError
    \/ RoomDisconnected
    \/ Disconnect

NextSync ==
    \/ \E kind \in ParticipantKinds, raw \in RawOrUndefined : ParticipantJoined(kind, raw)
    \/ \E i \in 1..MaxParticipants, raw \in RawOrUndefined : AttributesChanged(i, raw)
    \/ \E i \in 1..MaxParticipants : ParticipantLeft(i)

NextChat ==
    \/ \E role \in Roles, segments \in Batches : ApplySegments(role, segments)
    \/ \E text \in TypedTexts : SetTextInput(text)
    \/ \E sendChat \in BOOLEAN : HandleSendText(sendChat)
    \/ SendChatResolved
    \/ SendChatRejected
    \/ Tick

NextTrack ==
    \/ \E track \in Tracks \cup {NoTrack} : AgentTrackChanged(track)
    \/ SampleTick
    \/ TrackMuteChanged

\* the typed-text handlers of ChatPanel
NextTyping ==
    \/ \E text \in TypedTexts : SetTextInput(text)
    \/ \E sendChat \in BOOLEAN : HandleSendText(sendChat)
    \/ SendChatResolved
    \/ SendChatRejected

NextMic ==
    \/ \E localParticipant \in BOOLEAN : ToggleMicrophone(localParticipant)
    \/ MicrophoneSet

Next == NextRoom \/ NextSync \/ NextTrack \/ NextMic \/ NextChat

Spec == Init /\ [][Next]_vars

\* The session with the attribute channel silent: no action of NextSync
\* reads or writes chatVars, so the Turn log takes the same values as in Spec
NextReconciler == NextRoom \/ NextChat
SpecReconciler == Init /\ [][NextReconciler]_vars

\* The session with the transcript channels silent: no action of NextChat
\* reads or writes syncVars
NextSynchronizer == NextRoom \/ NextSync
SpecSynchronizer == Init /\ [][NextSynchronizer]_vars

\* The session's subscriptions: the attribute listener and the sampler's
\* interval, with the transcript channels and the text input silent
NextSubscriptions == NextRoom \/ NextSync \/ NextTrack
SpecSubscriptions == Init /\ [][NextSubscriptions]_vars

\* The session with the recognizer silent and the clock standing: typed
\* Turns and snapshots accumulate together
NextSession == NextRoom \/ NextSync \/ NextTyping
SpecSession == Init /\ [][NextSession]_vars

\* The whole session on a narrow set of inputs: one agent, whose state
\* attribute is empty or one of two snapshots; one-segment batches of one
\* id and text; one typed text; the clock standing
IsoRaws     == {"", RawA, RawB}
IsoSegments == [id : {<<"SG", 1>>}, text : {Hi}, final : BOOLEAN]
AgentKind   == CHOOSE kind \in ParticipantKinds : kind.isAgent

NextIsolation ==
    \/ NextRoom
    \/ \E raw \in IsoRaws : ParticipantJoined(AgentKind, raw)
    \/ \E raw \in IsoRaws : AttributesChanged(1, raw)
    \/ ParticipantLeft(1)
    \/ \E role \in Roles, seg \in IsoSegments : ApplySegments(role, << seg >>)
    \/ \E text \in {Empty, Padded} : SetTextInput(text)
    \/ HandleSendText(TRUE)
    \/ SendChatResolved
    \/ SendChatRejected
    \/ NextTrack
    \/ NextMic

SpecIsolation == Init /\ [][NextIsolation]_vars

\* ChatPanel's input controls, text and microphone, with the recognizer,
\* the attribute channel and the clock silent
NextPanel == NextRoom \/ NextTyping \/ NextMic
SpecPanel == Init /\ [][NextPanel]_vars

----------------------------------------------------------------------------
(* Properties of the transcript reconciler, under SpecReconciler *)

HasTurn(msgs, id) == \E i \in 1..Len(msgs) : msgs[i].id = id
IsBlank(text) == ~Truthy(trim(text))
OneSegment == { <<r, seg>> : r \in Roles, seg \in Segments }

\* C1 Final monotonicity: in every step, a Turn that is final and still in
\* the log (same id at the same index) is final afterwards.
C1_FinalMonotonic ==
    [][\A i \in 1..Len(messages) :
          (/\ messages[i].isFinal
           /\ i <= Len(messages')
           /\ messages'[i].id = messages[i].id) => messages'[i].isFinal]_vars

\* C2 Final-content clamp: in every step, a Turn that is final and still in
\* the log keeps the content it had.
C2_FinalContentKept ==
    [][\A i \in 1..Len(messages) :
          (/\ messages[i].isFinal
           /\ i <= Len(messages')
           /\ messages'[i].id = messages[i].id)
          => messages'[i].content = messages[i].content]_vars

\* C3 Idempotent segment application: from every reachable log of a mounted
\* panel, for every role and segment, applying the segment a second time
\* (at the same or a later clock value) gives the log that one application
\* gave.
C3_Idempotent ==
    Mounted =>
        \A rs \in OneSegment : \A t \in now..(MaxClock + 1) :
            LET once == processSegments(messages, << rs[2] >>, rs[1], now) IN
            processSegments(once, << rs[2] >>, rs[1], t) = once

\* a log that a segment application has changed, and on which a second
\* application of one of its Turns' segments is the case of C3
C3_Witness ==
    /\ Len(messages) = 2
    /\ \E i \in 1..2 :
          /\ messages[i].id \in SegIds
          /\ messages[i].timestamp < now
          /\ messages[i].content = HiThere
          /\ processSegments(messages,
                 << [id |-> messages[i].id, text |-> HiThere, final |-> messages[i].isFinal] >>,
                 messages[i].role, now) = messages

\* C4 Insertion-order stability: in every step within a session the log
\* only grows at its end: no Turn is removed and the Turn at each index
\* keeps its id.
C4_OrderStable ==
    [][(Mounted /\ Mounted') =>
          /\ Len(messages') >= Len(messages)
          /\ \A i \in 1..Len(messages) : messages'[i].id = messages[i].id]_vars

\* the log [user, agent] in which the user Turn, created first, carries
\* revised content written after the agent Turn was created
C4_Witness ==
    /\ Len(messages) = 2
    /\ messages[1].role = "user" /\ messages[1].id \in SegIds
    /\ messages[2].role = "assistant" /\ messages[2].id \in SegIds
    /\ messages[1].timestamp < messages[2].timestamp
    /\ messages[1].content = HiThere
    /\ messages[1].isFinal

\* C5 Turn-id uniqueness: no two Turns of the log have the same id.
C5_UniqueIds ==
    \A i, j \in 1..Len(messages) : i # j => messages[i].id # messages[j].id

\* C9 Empty-interim suppression: from every reachable log, a segment with
\* empty or whitespace-only text whose id has no Turn leaves the log as it
\* is; and in a batch of two, an id with no Turn whose segments are all
\* blank has no Turn afterwards.
C9_BlankSuppressed ==
    Mounted =>
    /\ \A rs \in OneSegment :
          (IsBlank(rs[2].text) /\ ~HasTurn(messages, rs[2].id))
          => processSegments(messages, << rs[2] >>, rs[1], now) = messages
    /\ \A r \in Roles, b \in [1..2 -> {seg \in Segments : IsBlank(seg.text)}] :
          \A k \in 1..2 :
              ~HasTurn(messages, b[k].id)
              => ~HasTurn(processSegments(messages, b, r, now), b[k].id)

\* a log with a Turn, and an id without one for which blank segments exist
C9_Witness ==
    /\ Len(messages) = 1
    /\ messages[1].id \in SegIds
    /\ \E seg \in Segments :
          /\ seg.text = Blank
          /\ ~HasTurn(messages, seg.id)
          /\ processSegments(messages, << seg >>, "user", now) = messages

\* C10 In-place update: from every reachable log, a segment whose id has a
\* Turn leaves the log's length and every other Turn as they are and sets
\* that Turn's content and isFinal to the segment's text and final flag;
\* two revisions of one id in a batch leave one Turn for the id, carrying
\* the second revision.
C10_InPlaceUpdate ==
    Mounted =>
    /\ \A rs \in OneSegment :
          HasTurn(messages, rs[2].id) =>
              LET seg == rs[2]
                  k   == findIndex(messages, seg.id) + 1
                  out == processSegments(messages, << seg >>, rs[1], now)
              IN  /\ Len(out) = Len(messages)
                  /\ out[k].content = seg.text
                  /\ out[k].isFinal = seg.final
                  /\ \A i \in 1..Len(messages) : i # k => out[i] = messages[i]
    /\ \A r \in Roles, s1 \in Segments, s2 \in Segments :
          (s1.id = s2.id /\ (HasTurn(messages, s1.id) \/ ~IsBlank(s1.text))) =>
              LET out == processSegments(messages, << s1, s2 >>, r, now)
                  at  == {i \in 1..Len(out) : out[i].id = s1.id}
              IN  /\ Cardinality(at) = 1
                  /\ \A i \in at : out[i].content = s2.text /\ out[i].isFinal = s2.final

\* the scenario's outcome: one user Turn, created earlier, final, "Hi there"
C10_Witness ==
    /\ Len(messages) = 1
    /\ messages[1].id \in SegIds
    /\ messages[1].role = "user"
    /\ messages[1].content = HiThere
    /\ messages[1].isFinal
    /\ messages[1].timestamp < now

\* C16 Typed text becomes a final user Turn: a step that starts a send
\* appends to the log, as its last Turn and before the send completes,
\* exactly one Turn with role user, the typed text as content and isFinal
\* true; the typed text is non-blank.
C16_TypedTurn ==
    [][(sendPending' > sendPending) =>
          /\ Truthy(trim(textInput))
          /\ Len(messages') = Len(messages) + 1
          /\ SubSeq(messages', 1, Len(messages)) = messages
          /\ messages'[Len(messages')].role = "user"
          /\ messages'[Len(messages')].content = textInput
          /\ messages'[Len(messages')].isFinal]_vars

\* the send is in flight and the log ends with the typed Turn, which
\* carries the text as typed, blanks included
C16_Witness ==
    /\ sendPending = 1
    /\ textInput = Padded
    /\ Len(messages) = 2
    /\ messages[1].id \in SegIds
    /\ messages[2] = [id |-> messageId(now), role |-> "user", content |-> Padded,
                      timestamp |-> now, isFinal |-> TRUE]

\* C17 Send failure is not rolled back: a step in which sendChat rejects
\* leaves the log as it was and changes what the panel shows, so that the
\* failure is surfaced to the user.
C17_FailureSurfaced ==
    [][SendChatRejected => (messages' = messages /\ chatView' # chatView)]_vars

\* C25 Empty batches are no-ops: from every reachable log and for either
\* role, processSegments called with an empty batch or with none returns
\* the log as it is.
C25_EmptyBatchNoOp ==
    Mounted =>
        \A r \in Roles, arg \in {NoSegments, Arr(<< >>)} :
            processSegmentsCall(messages, arg, r, now) = messages

\* a log of two Turns, which an empty batch leaves as it is
C25_Witness ==
    /\ Mounted
    /\ Len(messages) = 2
    /\ messages[1].id \in SegIds
    /\ processSegmentsCall(messages, Arr(<< >>), "assistant", now) = messages

\* C28 Role and creation time are fixed at creation: a step that keeps the
\* panel keeps every Turn's id, role and timestamp; and from every
\* reachable log, a segment arriving on the other role's channel with the
\* id of a Turn leaves the log's length and that Turn's id, role and
\* timestamp as they are, at any later time.
C28_RoleAndTimeFixed ==
    /\ [][(Mounted /\ Mounted') =>
              \A i \in 1..Len(messages) :
                  /\ i <= Len(messages')
                  /\ messages'[i].id = messages[i].id
                  /\ messages'[i].role = messages[i].role
                  /\ messages'[i].timestamp = messages[i].timestamp]_vars
    /\ [](Mounted =>
            \A rs \in OneSegment :
                (HasTurn(messages, rs[2].id)
                   /\ messages[findIndex(messages, rs[2].id) + 1].role # rs[1]) =>
                    LET k   == findIndex(messages, rs[2].id) + 1
                        out == processSegments(messages, << rs[2] >>, rs[1], MaxClock + 1)
                    IN  /\ Len(out) = Len(messages)
                        /\ out[k].id = messages[k].id
                        /\ out[k].role = messages[k].role
                        /\ out[k].timestamp = messages[k].timestamp)

\* a user Turn created earlier, and an agent-channel segment with its id
\* that revises its content and leaves it a user Turn
C28_Witness ==
    /\ Len(messages) = 1
    /\ messages[1].role = "user"
    /\ messages[1].id \in SegIds
    /\ messages[1].timestamp < now
    /\ \E seg \in Segments :
          /\ seg.id = messages[1].id
          /\ seg.text # messages[1].content
          /\ processSegments(messages, << seg >>, "assistant", now)[1].role = "user"

----------------------------------------------------------------------------
(* Properties of the state synchronizer, under SpecSynchronizer *)

\* the handler runs over ps, reads a non-empty state attribute and JSON.parse throws
Undecodable(ps) ==
    findAgent(ps) # 0 /\ StrTruthy(agentState(ps)) /\ Throws(agentState(ps))

\* C6 Malformed-update resilience: a step in which the listener runs on a
\* state attribute that fails to decode leaves sessionState as it was and
\* reports to console.error.
C6_MalformedKeepsState ==
    [][(Listening /\ participants' # participants /\ Undecodable(participants'))
          => (sessionState' = sessionState /\ consoleError')]_vars

\* snapshot A is materialized and the agent's attribute is now undecodable
C6_Witness ==
    /\ sessionState = Obj({<<"consented", "true">>})
    /\ agentState(participants) = RawGarbage
    /\ consoleError

\* C7 A broadcast never blanks good state: in a step that keeps the
\* session, a non-null sessionState stays non-null.
C7_NeverBlanked ==
    [][(Mounted /\ Mounted' /\ sessionState # Null) => sessionState' # Null]_vars

\* C8 Replace, last write wins: once a raw string has been decoded in the
\* session, sessionState is exactly the decoded value of the most recent
\* one.
C8_LastWriteWins ==
    (Mounted /\ lastDecoded # << >>)
        => sessionState = JSONParse(lastDecoded[Len(lastDecoded)])

\* snapshot B (consented, reminders) was decoded, then snapshot C
\* (reminders only): sessionState is C's, with no consented field
C8_Witness ==
    /\ lastDecoded = << RawB, RawC >>
    /\ sessionState = Obj({<<"reminders", "[]">>})

\* the handler runs over ps and JSON.parse accepts the agent's state attribute
Decodable(ps) ==
    findAgent(ps) # 0 /\ StrTruthy(agentState(ps)) /\ ~Throws(agentState(ps))

\* C11 No agent, no state: whenever no participant satisfies the agent
\* predicate, sessionState is null and the dashboard shows its placeholder.
C11_NoAgentNoState ==
    findAgent(participants) = 0
        => (sessionState = Null /\ CalendarDashboard(sessionState) = "placeholder")

\* C13 Eager replay: a step in which the participant list gains or loses a
\* member while the listener is attached, and after which the first agent
\* participant carries a decodable state attribute, publishes that
\* attribute's decoded value as sessionState in the same step.
C13_EagerReplay ==
    [][(Listening /\ Len(participants') # Len(participants) /\ Decodable(participants'))
          => sessionState' = JSONParse(agentState(participants'))]_vars

\* the agent is the only participant, joined with snapshot B already set:
\* B is published and is the only string decoded in the session
C13_Witness ==
    /\ Listening
    /\ Len(participants) = 1
    /\ participants[1].isAgent
    /\ participants[1].state = RawB
    /\ lastDecoded = << RawB >>
    /\ sessionState = JSONParse(RawB)

\* C14 Empty raw is a no-op: a step in which the listener runs and the
\* agent's state attribute is undefined or the empty string leaves
\* sessionState as it was.
C14_EmptyRawNoOp ==
    [][(Listening /\ participants' # participants /\ findAgent(participants') # 0
          /\ agentState(participants') \in {Undefined, ""})
          => sessionState' = sessionState]_vars

\* a snapshot is materialized and the agent's attribute is now empty
C14_Witness ==
    /\ Listening
    /\ findAgent(participants) # 0
    /\ agentState(participants) = ""
    /\ sessionState = Obj({<<"consented", "true">>})

\* C15 Defensive decode of list fields: a published sessionState has every
\* list-valued field, so no consumer reads a missing list.
C15_ListFieldsDefaulted ==
    (Mounted /\ sessionState # Null)
        => /\ \A k \in ListFields : HasField(sessionState, k)
           /\ PatientDashboard(sessionState) = "dashboard"

----------------------------------------------------------------------------
(* Properties of the session's life cycle, under SpecSession *)

\* the session ends: the room subtree unmounts, or the transport drops
SessionEnds ==
    \/ Mounted /\ ~Mounted'
    \/ roomState = "connected" /\ roomState' = "disconnected"

C18_TokenFailure ==
    error \in {Str("Failed to get token"), Str("Connection failed")} =>
        /\ errorShown
        /\ connection = Null
        /\ ~isConnecting
        /\ ~fetchPending
        /\ roomState = "none"
        /\ participants = << >>
        /\ messages = << >>
        /\ sessionState = Null

\* the token request failed with a non-success status
C18_Witness ==
    /\ error = Str("Failed to get token")
    /\ connection = Null
    /\ ~isConnecting
    /\ ~fetchPending

\* C19 Transport failure is reported and retryable: while the transport's
\* error is set, it is shown and the user can start a connection attempt.
C19_TransportErrorShown ==
    error = Str("transport error") => (errorShown /\ ENABLED Connect)

\* C26 Retry is always possible: with no connection and no token request
\* in flight, isConnecting is false, so the Start button is enabled.
C26_RetryPossible ==
    (connection = Null /\ ~fetchPending) => ~isConnecting

----------------------------------------------------------------------------
(* Properties of the subscriptions, under SpecSubscriptions *)

\* C27 No state without a connection: while connection is null,
\* sessionState is null and no attribute listener is registered.
C27_NoStateWithoutConnection ==
    connection = Null => (sessionState = Null /\ listeners = 0)

\* a session was started and ended by the user; the failed transport's
\* message is the trace it left
C27_Witness ==
    /\ connection = Null
    /\ error = Str("transport error")
    /\ sessionState = Null
    /\ listeners = 0

\* C20 No leaked subscription: at most one attribute-change listener and at
\* most one sampling interval are registered, and none of either once the
\* room subtree is unmounted.
C20_NoLeak ==
    /\ listeners <= 1
    /\ timers <= 1
    /\ ~Mounted => (listeners = 0 /\ timers = 0)

\* each re-subscription removes the previous registration: one listener
\* and one interval with two participants in the room and the agent's
\* second track reference in use
C20_Witness ==
    /\ Listening
    /\ Len(participants) = 2
    /\ agentTrack = 2
    /\ listeners = 1
    /\ timers = 1

\* C21 Sampler lifecycle: the sampling interval is set exactly while an
\* agent track is available, which is only in a live session with an agent
\* participant; and a step that publishes a sample is taken with a track
\* available, never after the interval was cleared.
C21_SamplerLifecycle ==
    /\ [](/\ (agentTrack # NoTrack) <=> (timers = 1)
          /\ (agentTrack = NoTrack) <=> (timers = 0)
          /\ (agentTrack # NoTrack) => (Listening /\ findAgent(participants) # 0))
    /\ [][(Mounted /\ Mounted' /\ isAgentSpeaking' # isAgentSpeaking)
             => (agentTrack # NoTrack /\ timers = 1)]_vars

\* the agent's track was there and sampled as unmuted; it is gone, the
\* interval is cleared and the last sample is still shown
C21_Witness ==
    /\ Listening
    /\ findAgent(participants) # 0
    /\ agentTrack = NoTrack
    /\ timers = 0
    /\ isAgentSpeaking

\* C22 Speaking indicator reflects the most recent sample: isAgentSpeaking
\* is false while the panel is not mounted and when it mounts; while the
\* panel stays mounted it changes only in a step with the interval set,
\* and then to (the track is not muted).
C22_ReflectsSample ==
    /\ [](~Mounted => ~isAgentSpeaking)
    /\ [][(~Mounted /\ Mounted') => ~isAgentSpeaking']_vars
    /\ [][(Mounted /\ Mounted' /\ isAgentSpeaking' # isAgentSpeaking)
             => (timers > 0 /\ isAgentSpeaking' = ~trackMuted
                 /\ trackMuted' = trackMuted)]_vars

\* the track was sampled unmuted and has been muted since, with no tick yet
C22_Witness ==
    /\ agentTrack # NoTrack
    /\ trackMuted
    /\ isAgentSpeaking

----------------------------------------------------------------------------
(* Properties across the components, under SpecIsolation *)

\* C23 Component isolation: in a step that keeps the session, a change of
\* the Turn log, of the text input or of the sends in flight (a segment
\* batch, a typed submission) leaves sessionState as it was; a change of
\* the participants or their attributes leaves the Turn log as it was; a
\* sampler tick and a microphone toggle leave both as they were.
C23_Isolation ==
    [][(Mounted /\ Mounted') =>
          /\ (chatVars' # chatVars) => sessionState' = sessionState
          /\ (participants' # participants) => messages' = messages
          /\ (SampleTick \/ isAgentSpeaking' # isAgentSpeaking)
                => (messages' = messages /\ sessionState' = sessionState)
          /\ ((\E lp \in BOOLEAN : ToggleMicrophone(lp)) \/ micRequest' # micRequest)
                => (messages' = messages /\ sessionState' = sessionState)]_vars

\* every component holds something: a transcribed and a typed Turn,
\* snapshot B, a positive sample and a pending microphone request
C23_Witness ==
    /\ Len(messages) = 2
    /\ messages[1].id \in SegIds
    /\ messages[2].id = messageId(now)
    /\ sessionState = JSONParse(RawB)
    /\ isAgentSpeaking
    /\ micRequest = "off"

----------------------------------------------------------------------------
(* Properties of the panel's input controls, under SpecPanel *)

\* C24 toggleMicrophone: with a local participant the call asks the
\* transport for the negation of the microphone's current value and
\* changes nothing else; without one it changes nothing; no request for
\* any other value is ever made.
C24_ToggleMicrophone ==
    [][/\ ToggleMicrophone(TRUE)
             => (micRequest' = (IF micEnabled THEN "off" ELSE "on")
                 /\ micEnabled' = micEnabled)
       /\ ToggleMicrophone(FALSE) => UNCHANGED <<micRequest, micEnabled>>
       /\ (micRequest' # micRequest /\ micRequest' # "none")
             => micRequest' = (IF micEnabled THEN "off" ELSE "on")]_vars

\* the microphone is on and the call asking to turn it off is pending
C24_Witness ==
    /\ Mounted
    /\ micEnabled
    /\ micRequest = "off"

\* C29 Blank typed input is ignored: the send handler called with empty or
\* whitespace-only text, or without a send function, leaves the log, the
\* sends in flight and the text input as they are; no step taken with
\* blank text adds a Turn or starts a send; a send that resolves clears
\* the text input.
C29_BlankIgnored ==
    [][/\ ((HandleSendText(TRUE) /\ IsBlank(textInput)) \/ HandleSendText(FALSE))
             => UNCHANGED <<messages, sendPending, textInput>>
       /\ (Mounted /\ Mounted' /\ IsBlank(textInput))
             => (messages' = messages /\ sendPending' <= sendPending)
       /\ SendChatResolved => textInput' = Empty]_vars

\* the typed Turn is in the log, its send is over and the input is empty
C29_Witness ==
    /\ Mounted
    /\ Len(messages) = 1
    /\ messages[1].content = Padded
    /\ sendPending = 0
    /\ textInput = Empty

====
